---- MODULE Spec2Model ----
(***************************************************************************)
(* Project persistence and interchange layer of the branching-video        *)
(* scenario editor: the archive codec (ExportService), the binary asset    *)
(* store it reads and writes, and the Project Store (ProjectService) in    *)
(* its localStorage and IndexedDB variants.                                *)
(*                                                                         *)
(* Conventions of the data model                                           *)
(*   - identifiers are naturals; 0 stands for an absent / falsy id;        *)
(*   - strings that the code tests for truthiness use "" for absent;       *)
(*   - timestamps are naturals, 0 stands for an absent timestamp;          *)
(*   - crypto.randomUUID() is modelled as an allocator of identifiers      *)
(*     that were never handed out before (counter nextId);                 *)
(*   - a parsed JSON document is a record whose absent keys hold the       *)
(*     falsy value of their type; JSON.stringify followed by JSON.parse    *)
(*     keeps such a record as it is.                                       *)
(***************************************************************************)
EXTENDS Integers, Sequences, FiniteSets, TLC

\* ------------------------------------------------------------------ bounds
MaxNodes == 2
NumAssets == 2
NumProjects == 2
MaxClock == 3
MaxOps == 3
MaxCalls == 2

\* calls made to the asset store adapter
MaxMediaCalls == 3

\* arrays the scenario editor builds: graph changes, undos and redos
MaxEdits == 4

\* --------------------------------------------------------- generic helpers
Range(s) == { s[i] : i \in 1..Len(s) }

SeqsUpTo(S, n) == UNION { [1..k -> S] : k \in 0..n }

\* ------------------------------------------------------------------ base64
\* A base64 text is a sequence of alphabet indices 0..63; Pad is '='.
Pad == 64

B64Group(b1, b2, b3) ==
  LET n == b1 * 65536 + b2 * 256 + b3
  IN  << n \div 262144, (n \div 4096) % 64, (n \div 64) % 64, n % 64 >>

RECURSIVE B64Encode(_)
B64Encode(bytes) ==
  IF Len(bytes) = 0 THEN << >>
  ELSE IF Len(bytes) = 1
    THEN LET g == B64Group(bytes[1], 0, 0) IN << g[1], g[2], Pad, Pad >>
  ELSE IF Len(bytes) = 2
    THEN LET g == B64Group(bytes[1], bytes[2], 0) IN << g[1], g[2], g[3], Pad >>
  ELSE B64Group(bytes[1], bytes[2], bytes[3])
         \o B64Encode(SubSeq(bytes, 4, Len(bytes)))

\* atob: strip up to two trailing pads when the length is a multiple of 4
StripPad(s) ==
  IF Len(s) % 4 = 0 /\ Len(s) > 0 /\ s[Len(s)] = Pad
    THEN IF s[Len(s) - 1] = Pad THEN SubSeq(s, 1, Len(s) - 2)
                                ELSE SubSeq(s, 1, Len(s) - 1)
    ELSE s

AtobOk(s) ==
  LET t == StripPad(s)
  IN  /\ Len(t) % 4 # 1
      /\ \A i \in 1..Len(t) : t[i] \in 0..63

RECURSIVE AtobBody(_)
AtobBody(t) ==
  IF Len(t) < 2 THEN << >>
  ELSE IF Len(t) = 2
    THEN << (t[1] * 64 + t[2]) \div 16 >>
  ELSE IF Len(t) = 3
    THEN LET n == (t[1] * 4096 + t[2] * 64 + t[3]) \div 4
         IN  << n \div 256, n % 256 >>
  ELSE LET n == t[1] * 262144 + t[2] * 4096 + t[3] * 64 + t[4]
       IN  << n \div 65536, (n \div 256) % 256, n % 256 >>
             \o AtobBody(SubSeq(t, 5, Len(t)))

Atob(s) == AtobBody(StripPad(s))

\* ------------------------------------------------------- codec data model
AssetIds == 1..NumAssets

\* payloads held by the assets of the model
ByteSeqs == { << >>, << 0, 1 >>, << 255 >>, << 77, 97, 110 >> }

MimeTypes == { "video/mp4", "video/webm" }

\* a record of the videos object store; data = NoData models a record
\* whose data field is missing
NoData == << -1 >>

VideoRecord(d, t) == [ data |-> d, type |-> t ]

\* node.data.videoUrl
NoUrl == [ scheme |-> "none", id |-> 0 ]
ResourceUrl(i) == [ scheme |-> "resource", id |-> i ]
BlobUrl(i) == [ scheme |-> "blob", id |-> i ]

MkNode(i, t, u, f, c) ==
  [ id |-> i, type |-> t, videoUrl |-> u, originalFilename |-> f, choices |-> c ]

\* the shapes a node of the model takes, apart from its id
NodeShapes ==
  { [ type |-> "button", videoUrl |-> NoUrl, originalFilename |-> "", choices |-> 0 ],
    [ type |-> "video", videoUrl |-> NoUrl, originalFilename |-> "", choices |-> 0 ],
    [ type |-> "video", videoUrl |-> BlobUrl(1), originalFilename |-> "", choices |-> 0 ] }
  \cup { [ type |-> "video", videoUrl |-> ResourceUrl(a),
           originalFilename |-> f, choices |-> 2 ] :
           a \in AssetIds, f \in { "", "clip.mp4" } }

\* node ids are unique within a project: the node at position i has id i
NodeSeqs ==
  UNION { { [ i \in 1..k |->
              MkNode(i, sh[i].type, sh[i].videoUrl, sh[i].originalFilename,
                     sh[i].choices) ] : sh \in [1..k -> NodeShapes] } :
          k \in 0..MaxNodes }

MkEdge(s, t, h) == [ source |-> s, target |-> t, sourceHandle |-> h ]

\* edges between nodes 1 and 2; with fewer nodes they dangle, which the
\* codec tolerates
EdgeSeqs(nodes) ==
  IF Len(nodes) = 0 THEN { << >> }
  ELSE { << >>, << MkEdge(1, 2, ""), MkEdge(2, 1, "No") >> }

MkProject(i, n, d, ns, es, c, u) ==
  [ id |-> i, name |-> n, description |-> d, nodes |-> ns, edges |-> es,
    createdAt |-> c, updatedAt |-> u ]

NoProject == MkProject(0, "", "", << >>, << >>, 0, 0)

MkResource(i, d, n, m, f) ==
  [ id |-> i, data |-> d, type |-> "video", nodeId |-> n, mimeType |-> m,
    filename |-> f ]

\* the codec's own version (private readonly VERSION)
VERSION == "2.0.0"

\* major component of the version strings of the model
Major(v) == IF v = "2.0.0" THEN 2
            ELSE IF v = "2.1.0" THEN 2
            ELSE IF v = "3.0.0" THEN 3
            ELSE IF v = "1.0.0" THEN 1
            ELSE 0

\* ----------------------------------------------------------------- export
\* IndexedDB put on the videos store
PutVideo(vids, id, rec) ==
  [ k \in DOMAIN vids \cup { id } |-> IF k = id THEN rec ELSE vids[k] ]

\* outcome of getVideoFromDB: the request fails (rejects), or resolves with
\* null (no record, or a record without data), or resolves with the record
GetVideoFromDB(vids, id, failing) ==
  IF id \in failing THEN [ status |-> "rejected", video |-> VideoRecord(NoData, "") ]
  ELSE IF id \notin DOMAIN vids THEN [ status |-> "null", video |-> VideoRecord(NoData, "") ]
  ELSE IF vids[id].data = NoData THEN [ status |-> "null", video |-> VideoRecord(NoData, "") ]
  ELSE [ status |-> "ok", video |-> vids[id] ]

\* arrayBufferToBase64: the data URL of the bytes, cut after the comma
ArrayBufferToBase64(bytes) == B64Encode(bytes)

\* node.type === 'video' && node.data?.videoUrl, and the url is resource://
IsResourceVideoNode(n) ==
  n.type = "video" /\ n.videoUrl.scheme = "resource"

FilenameOf(n) == IF n.originalFilename = "" THEN "video.mp4" ELSE n.originalFilename

\* variant: the rejected read is thrown on to the caller
CatchCollectErrorRethrows(status) == status = "rejected"

\* what the try/catch around one node's read makes of a rejected read:
\* the error is logged and the node skipped
CatchCollectError(status) == FALSE

\* the result of collectResources: the resources in node order, and
\* whether an error escaped
RECURSIVE CollectResourcesFrom(_, _, _, _)
CollectResourcesFrom(nodes, i, vids, failing) ==
  IF i > Len(nodes) THEN [ raised |-> FALSE, resources |-> << >> ]
  ELSE
    LET n == nodes[i]
        rest == CollectResourcesFrom(nodes, i + 1, vids, failing)
        got == GetVideoFromDB(vids, n.videoUrl.id, failing)
        base64 == ArrayBufferToBase64(got.video.data)
    IN  IF ~IsResourceVideoNode(n) THEN rest
        ELSE IF got.status = "rejected"
          THEN [ raised |-> rest.raised \/ CatchCollectError(got.status),
                 resources |-> rest.resources ]
        ELSE IF got.status = "null" THEN rest
        ELSE IF base64 = << >> THEN rest
        ELSE [ raised |-> rest.raised,
               resources |->
                 << MkResource(n.videoUrl.id, base64, n.id, got.video.type,
                               FilenameOf(n)) >> \o rest.resources ]

CollectResources(nodes, vids, failing) ==
  CollectResourcesFrom(nodes, 1, vids, failing)

RECURSIVE CollectResourcesMetadataFrom(_, _, _, _)
CollectResourcesMetadataFrom(nodes, i, vids, failing) ==
  IF i > Len(nodes) THEN [ raised |-> FALSE, resources |-> << >> ]
  ELSE
    LET n == nodes[i]
        rest == CollectResourcesMetadataFrom(nodes, i + 1, vids, failing)
        got == GetVideoFromDB(vids, n.videoUrl.id, failing)
    IN  IF ~IsResourceVideoNode(n) THEN rest
        ELSE IF got.status # "ok" THEN rest
        ELSE [ raised |-> rest.raised,
               resources |->
                 << MkResource(n.videoUrl.id, << >>, n.id, got.video.type,
                               FilenameOf(n)) >> \o rest.resources ]

\* variant: the metadata-only collection embeds the bytes
CollectResourcesMetadataWithData(nodes, vids, failing) ==
  CollectResources(nodes, vids, failing)

CollectResourcesMetadata(nodes, vids, failing) ==
  CollectResourcesMetadataFrom(nodes, 1, vids, failing)

\* variant: the resource is looked up by its own id
FindByResourceId(resources, nodeId) ==
  IF \E k \in 1..Len(resources) : resources[k].id = nodeId
    THEN CHOOSE k \in 1..Len(resources) :
           /\ resources[k].id = nodeId
           /\ \A j \in 1..(k - 1) : resources[j].id # nodeId
    ELSE 0

\* resources.find(r => r.nodeId === node.id): index of the first match, 0 if none
FindByNodeId(resources, nodeId) ==
  IF \E k \in 1..Len(resources) : resources[k].nodeId = nodeId
    THEN CHOOSE k \in 1..Len(resources) :
           /\ resources[k].nodeId = nodeId
           /\ \A j \in 1..(k - 1) : resources[j].nodeId # nodeId
    ELSE 0

\* the node as written into scenario.nodes
ExportNode(n, resources) ==
  LET k == FindByNodeId(resources, n.id)
  IN  IF n.type = "video" /\ n.videoUrl.scheme # "none" /\ k # 0
        THEN [ n EXCEPT !.videoUrl = ResourceUrl(resources[k].id),
                        !.originalFilename = resources[k].filename ]
        ELSE n

\* the archive file: its name's extension, what its text parses to ("garbage"
\* is not JSON, "scalar" is JSON but no object, "object"), and the keys of
\* that object
MkArchive(ext, kind, ver, nm, dsc, hasP, p, hasS, hasN, ns, es, rs) ==
  [ ext |-> ext, kind |-> kind, version |-> ver, name |-> nm,
    description |-> dsc, hasProject |-> hasP, project |-> p,
    hasScenario |-> hasS, hasNodes |-> hasN, nodes |-> ns,
    edges |-> es, resources |-> rs ]

NoArchive ==
  MkArchive("", "none", "", "", "", FALSE, NoProject, FALSE, FALSE,
            << >>, << >>, << >>)

\* exportProject: [raised, archive]
ExportProject(p, includeVideos, vids, failing) ==
  LET col == IF includeVideos THEN CollectResources(p.nodes, vids, failing)
             ELSE CollectResourcesMetadata(p.nodes, vids, failing)
      resources == col.resources
  IN  [ raised |-> col.raised,
        archive |->
          MkArchive("pov", "object", VERSION,
                    IF p.name = "" THEN "Projet sans nom" ELSE p.name,
                    p.description, FALSE, NoProject, TRUE, TRUE,
                    [ i \in 1..Len(p.nodes) |-> ExportNode(p.nodes[i], resources) ],
                    p.edges, resources) ]

\* ----------------------------------------------------------------- import
\* Map.get after new Map(resources.map(r => [r.id, r])): the last resource
\* with that id wins; 0 if there is none
LastIndexOfId(resources, id) ==
  IF \E k \in 1..Len(resources) : resources[k].id = id
    THEN CHOOSE k \in 1..Len(resources) :
           /\ resources[k].id = id
           /\ \A j \in (k + 1)..Len(resources) : resources[j].id # id
    ELSE 0

\* variant: the id recorded in the archive is used again
NewResourceIdReused(resources, base, oldId) == oldId

\* resourceIdMap.get(oldId): one new id is minted per resource, in order,
\* starting at base; the entry of the last resource with that id wins
NewResourceId(resources, base, oldId) ==
  base + LastIndexOfId(resources, oldId) - 1

\* storeVideoInDB succeeds when atob accepts the text and the put succeeds
StoreVideoSucceeds(res, storeFailing) ==
  AtobOk(res.data) /\ res.id \notin storeFailing

\* variant: the base64 text is stored without being decoded
StoreVideoInDBNoDecode(vids, id, base64Data, mimeType) ==
  PutVideo(vids, id, VideoRecord(base64Data, mimeType))

\* storeVideoInDB(id, base64Data, mimeType): the store after the put
StoreVideoInDB(vids, id, base64Data, mimeType) ==
  PutVideo(vids, id, VideoRecord(Atob(base64Data), mimeType))

\* variant: a resource is restored whether or not it carries data
HasDataAlways(res) == TRUE

\* resource.data is truthy
HasData(res) == res.data # << >>

\* the loop over project.nodes that restores the resources: the nodes as
\* rewritten, the store as written and the keys that were put
RECURSIVE RestoreFrom(_, _, _, _, _, _)
RestoreFrom(nodes, i, resources, base, vids, storeFailing) ==
  IF i > Len(nodes) THEN [ nodes |-> << >>, vids |-> vids, written |-> {} ]
  ELSE
    LET n == nodes[i]
        k == LastIndexOfId(resources, n.videoUrl.id)
        res == resources[k]
        newId == NewResourceId(resources, base, n.videoUrl.id)
        stored == /\ n.type = "video"
                  /\ n.videoUrl.scheme = "resource"
                  /\ k # 0
                  /\ HasData(res)
                  /\ StoreVideoSucceeds(res, storeFailing)
        vids1 == IF stored
                   THEN StoreVideoInDB(vids, newId, res.data, res.mimeType)
                   ELSE vids
        n1 == IF stored
                THEN [ n EXCEPT !.videoUrl = ResourceUrl(newId),
                                !.originalFilename = res.filename ]
                ELSE n
        rest == RestoreFrom(nodes, i + 1, resources, base, vids1, storeFailing)
    IN  [ nodes |-> << n1 >> \o rest.nodes, vids |-> rest.vids,
          written |-> IF stored THEN { newId } \cup rest.written
                                ELSE rest.written ]

\* a failure that would be swallowed: the call returns
ImportFailureSwallowed(err, vids, nid) ==
  [ ok |-> TRUE, error |-> "", project |-> NoProject, vids |-> vids,
    nextId |-> nid, written |-> {} ]

ImportFailure(err, vids, nid) ==
  [ ok |-> FALSE, error |-> err, project |-> NoProject, vids |-> vids,
    nextId |-> nid, written |-> {} ]

\* variant: the conversion of the scenario envelope forgets its edges
ImportedProjectOfNoEdges(file, nid, clock) ==
  IF file.hasProject
    THEN [ file.project EXCEPT
             !.id = IF @ = 0 THEN nid ELSE @,
             !.name = IF @ # "" THEN @
                      ELSE IF file.name # "" THEN file.name
                      ELSE "Projet importe",
             !.description = IF @ # "" THEN @ ELSE file.description,
             !.createdAt = IF @ = 0 THEN clock ELSE @,
             !.updatedAt = IF @ = 0 THEN clock ELSE @ ]
    ELSE MkProject(nid,
                   IF file.name # "" THEN file.name ELSE "Projet importe",
                   file.description, file.nodes, << >>, clock, clock)

\* the project before the resources are restored, for the two envelopes
ImportedProjectOf(file, nid, clock) ==
  IF file.hasProject
    THEN [ file.project EXCEPT
             !.id = IF @ = 0 THEN nid ELSE @,
             !.name = IF @ # "" THEN @
                      ELSE IF file.name # "" THEN file.name
                      ELSE "Projet importe",
             !.description = IF @ # "" THEN @ ELSE file.description,
             !.createdAt = IF @ = 0 THEN clock ELSE @,
             !.updatedAt = IF @ = 0 THEN clock ELSE @ ]
    ELSE MkProject(nid,
                   IF file.name # "" THEN file.name ELSE "Projet importe",
                   file.description, file.nodes, file.edges, clock, clock)

\* whether importProject minted the project id with crypto.randomUUID
MintsProjectId(file) == ~file.hasProject \/ file.project.id = 0

\* importProject(file): [ok, error, project, vids, nextId, written]
ImportProject(file, vids, nid, clock, storeFailing) ==
  IF file.ext \notin { "pov", "json" }
    THEN ImportFailure("Invalid file type", vids, nid)
  ELSE IF file.kind = "garbage"
    THEN ImportFailure("Invalid JSON format", vids, nid)
  ELSE IF file.kind # "object"
    THEN ImportFailure("Invalid project file format", vids, nid)
  ELSE IF ~file.hasProject /\ ~(file.hasScenario /\ file.hasNodes)
    THEN ImportFailure("Invalid project file: missing or invalid project data",
                       vids, nid)
  ELSE
    LET p == ImportedProjectOf(file, nid, clock)
        base == IF MintsProjectId(file) THEN nid + 1 ELSE nid
        r == RestoreFrom(p.nodes, 1, file.resources, base, vids, storeFailing)
    IN  IF Len(file.resources) > 0
          THEN [ ok |-> TRUE, error |-> "",
                 project |-> [ p EXCEPT !.nodes = r.nodes ],
                 vids |-> r.vids, nextId |-> base + Len(file.resources),
                 written |-> r.written ]
          ELSE [ ok |-> TRUE, error |-> "", project |-> p, vids |-> vids,
                 nextId |-> base, written |-> {} ]

\* ------------------------------------------------------------------ state
VARIABLES
  videos,        \* the videos object store: asset id -> [data, type]
  videos0,       \* the videos store as it was before the codec ran
  project,       \* the project handed to exportProject
  file,          \* the archive file: written by export or picked for import
  exportOpts,    \* how export was called and whether it raised
  importResult,  \* what importProject returned or threw, and the keys it put
  nextId,        \* next identifier crypto.randomUUID() hands out
  now,           \* the clock read by new Date()
  pc,            \* progress of the codec session
  lsData,        \* localStorage: project id -> document (amen_project_<id>)
  lsIndex,       \* localStorage: ids of the entries under amen_projects
  lsTasks,       \* continuations of started writes, in microtask order
  lsOps,         \* number of writes started
  idbStore,      \* IndexedDB object store projects: project id -> document
  idbCache,      \* the service's Map projects: project id -> loaded object
  idbTasks,      \* calls waiting for getDB() to resolve, in request order
  idbLast,       \* how the call that settled last ended
  idbOps,        \* number of calls made to the service
  library,       \* ProjectLibrary: the project it opened and its error state
  adapter,       \* which LocalStorageAdapter of the repository is in use
  storedMetadata,\* localStorage media_library: the asset ids with metadata
  files,         \* IndexedDB MediaLibrary/files: the asset ids with bytes
  mediaTasks,    \* indexedDB.open requests of the adapter, in request order
  mediaLast,     \* how the adapter call that settled last ended
  mediaOps,      \* number of calls made to the adapter
  graph,         \* Flow: the nodes and edges arrays and what they hold
  history,       \* Flow: the history state
  currentHistoryIndex, \* Flow: the currentHistoryIndex state
  isUndoRedo,    \* Flow: the isUndoRedo state
  graphRefs      \* number of arrays the editor has built so far

vars == << videos, videos0, project, file, exportOpts, importResult, nextId,
           now, pc, lsData, lsIndex, lsTasks, lsOps,
           idbStore, idbCache, idbTasks, idbLast, idbOps, library,
           adapter, storedMetadata, files, mediaTasks, mediaLast, mediaOps,
           graph, history, currentHistoryIndex, isUndoRedo, graphRefs >>

codecVars == << videos, videos0, project, file, exportOpts, importResult, pc >>

lsVars == << lsData, lsIndex, lsTasks, lsOps >>

idbVars == << idbStore, idbCache, idbTasks, idbLast, idbOps >>

mediaVars == << adapter, storedMetadata, files, mediaTasks, mediaLast, mediaOps >>

editorVars == << graph, history, currentHistoryIndex, isUndoRedo, graphRefs >>

\* an asset library nobody has used: no metadata, no bytes, no open request
NoMediaResult == [ op |-> "", id |-> 0, call |-> 0, status |-> "", listed |-> {}, missing |-> {} ]

MediaUnused ==
  /\ adapter = ""
  /\ storedMetadata = {}
  /\ files = {}
  /\ mediaTasks = << >>
  /\ mediaLast = NoMediaResult
  /\ mediaOps = 0

\* the graph arrays: ref tells one pair of arrays from another, content is
\* what JSON.stringify makes of them, 0 for no node and no edge
MkGraph(r, c) == [ ref |-> r, content |-> c ]

\* the Flow component as useState builds it
EditorMounted ==
  /\ graph = MkGraph(0, 0)
  /\ history = << >>
  /\ currentHistoryIndex = -1
  /\ isUndoRedo = FALSE
  /\ graphRefs = 0

\* first identifier not in use when the model starts
FirstFreshId == NumAssets + NumProjects + 1

\* values of exportOpts and importResult before the codec ran
NoExport == [ includeVideos |-> FALSE, failing |-> {}, raised |-> FALSE ]

NoImport == [ ok |-> FALSE, error |-> "", project |-> NoProject, written |-> {} ]

\* --------------------------------- Project Store, localStorage variant
ProjectIds == 1..NumProjects

Names == { "Demo", "Renamed" }

\* a stored document; content stands for the nodes and edges
MkDoc(i, n, c, cr, up) ==
  [ id |-> i, name |-> n, content |-> c, createdAt |-> cr, updatedAt |-> up ]

\* localStorage.setItem / removeItem on amen_project_<id>
SetItem(data, id, doc) ==
  [ k \in DOMAIN data \cup { id } |-> IF k = id THEN doc ELSE data[k] ]

RemoveItem(data, id) == [ k \in DOMAIN data \ { id } |-> data[k] ]

\* no document: what a caller holds before a load, and a null result
NoDoc == MkDoc(0, "", 0, 0, 0)

\* the outcome of a call on the IndexedDB service: resolved with a
\* document ("ok"), resolved with null ("null") or rejected ("error")
MkResult(op, id, status, doc, overlaps) ==
  [ op |-> op, id |-> id, status |-> status, doc |-> doc, overlaps |-> overlaps ]

NoResult == MkResult("", 0, "none", NoDoc, FALSE)

\* ProjectLibrary before any handler ran: nothing opened, no error shown
NoLibrary == [ selected |-> 0, error |-> "" ]

RECURSIVE FilterSeq(_, _)
FilterSeq(s, keep) ==
  IF Len(s) = 0 THEN << >>
  ELSE IF s[1] \in keep THEN << s[1] >> \o FilterSeq(Tail(s), keep)
  ELSE FilterSeq(Tail(s), keep)

\* loadProject(id) returns the document, or throws when there is none
LoadableLS(data, id) == id \in DOMAIN data

\* listProjects(): the entries of amen_projects in their stored order, each
\* loaded with loadProject, those that fail to load dropped; as ids
ListProjectsLS(data, index) == FilterSeq(index, DOMAIN data)

\* the value written to amen_projects when the write resumes after
\* its await of listProjects()
IndexAfter(task) ==
  IF task.op = "delete"
    THEN FilterSeq(task.projects, Range(task.projects) \ { task.id })
  ELSE IF task.op = "save" /\ task.id \in Range(task.projects)
    THEN task.projects
  ELSE Append(task.projects, task.id)

MkTask(op, id, projects) == [ op |-> op, id |-> id, projects |-> projects ]

LSInit ==
  /\ lsData = << >>
  /\ lsIndex = << >>
  /\ lsTasks = << >>
  /\ lsOps = 0
  /\ nextId = FirstFreshId
  /\ now = 1
  /\ videos = << >>
  /\ videos0 = << >>
  /\ project = NoProject
  /\ file = NoArchive
  /\ exportOpts = NoExport
  /\ importResult = NoImport
  /\ pc = "store"
  /\ idbStore = << >>
  /\ idbCache = << >>
  /\ idbTasks = << >>
  /\ idbLast = NoResult
  /\ idbOps = 0
  /\ library = NoLibrary
  /\ MediaUnused
  /\ EditorMounted

\* the part of a write that runs before its first await: the document is
\* written (or removed) and listProjects() reads the index and the documents
StartWrite(op, id, data1) ==
  /\ lsOps < MaxOps
  /\ lsData' = data1
  /\ lsTasks' = Append(lsTasks, MkTask(op, id, ListProjectsLS(data1, lsIndex)))
  /\ lsOps' = lsOps + 1
  /\ UNCHANGED << lsIndex, now >>
  /\ UNCHANGED codecVars
  /\ UNCHANGED << idbVars, library >>
  /\ UNCHANGED << mediaVars, editorVars >>

\* createProject(name, description)
LSCreateProject(name) ==
  /\ StartWrite("create", nextId,
                SetItem(lsData, nextId, MkDoc(nextId, name, 0, now, now)))
  /\ nextId' = nextId + 1

\* saveProject(project) with the caller's object p
LSSaveProject(p) ==
  /\ StartWrite("save", p.id, SetItem(lsData, p.id, [ p EXCEPT !.updatedAt = now ]))
  /\ UNCHANGED nextId

\* deleteProject(id)
LSDeleteProject(id) ==
  /\ StartWrite("delete", id, RemoveItem(lsData, id))
  /\ UNCHANGED nextId

\* the continuation of the oldest started write: amen_projects is written
LSResume ==
  /\ lsTasks # << >>
  /\ lsIndex' = IndexAfter(Head(lsTasks))
  /\ lsTasks' = Tail(lsTasks)
  /\ UNCHANGED << lsData, lsOps, nextId, now >>
  /\ UNCHANGED codecVars
  /\ UNCHANGED << idbVars, library >>
  /\ UNCHANGED << mediaVars, editorVars >>

\* time passes
Tick ==
  /\ now < MaxClock
  /\ now' = now + 1
  /\ UNCHANGED << lsData, lsIndex, lsTasks, lsOps, nextId >>
  /\ UNCHANGED codecVars
  /\ UNCHANGED << idbVars, library >>
  /\ UNCHANGED << mediaVars, editorVars >>

\* the objects callers hand to saveProject: a new document, or a stored
\* one with its name or content changed
SaveInputs ==
  { MkDoc(i, n, c, IF i \in DOMAIN lsData THEN lsData[i].createdAt ELSE now, now) :
      i \in ProjectIds \cup DOMAIN lsData, n \in Names, c \in 0..1 }

LSNext ==
  \/ \E n \in Names : LSCreateProject(n)
  \/ \E p \in SaveInputs : LSSaveProject(p)
  \/ \E i \in ProjectIds \cup DOMAIN lsData : LSDeleteProject(i)
  \/ LSResume
  \/ Tick

SpecLS == LSInit /\ [][LSNext]_vars

\* --------------------------------- Project Store, IndexedDB variant
\* the keys a caller passes to updateProject; "", -1 and 0 are absent keys
MkUpdates(n, c, cr) == [ name |-> n, content |-> c, createdAt |-> cr ]

NoUpdates == MkUpdates("", -1, 0)

\* { ...project, ...updates }
ApplyUpdates(doc, u) ==
  [ doc EXCEPT !.name = IF u.name # "" THEN u.name ELSE @,
               !.content = IF u.content # -1 THEN u.content ELSE @,
               !.createdAt = IF u.createdAt # 0 THEN u.createdAt ELSE @ ]

\* a call waiting for getDB(): step is the request its transaction will
\* make; ref says that the object to put is the one the Map holds for id;
\* overlaps says that another put of the same id was waiting when this
\* one was queued
MkCall(op, step, id, doc, ref, upd, overlaps) ==
  [ op |-> op, step |-> step, id |-> id, doc |-> doc, ref |-> ref,
    upd |-> upd, overlaps |-> overlaps ]

PutPending(tasks, id) ==
  \E k \in 1..Len(tasks) : tasks[k].step = "put" /\ tasks[k].id = id

\* the Map entry of id is replaced: the waiting puts that hold the old
\* object keep it, and nothing else can reach it any more
Detach(tasks, id, obj) ==
  [ k \in 1..Len(tasks) |->
      IF tasks[k].ref /\ tasks[k].id = id
        THEN [ tasks[k] EXCEPT !.ref = FALSE, !.doc = obj ]
        ELSE tasks[k] ]

\* saveProject stamps the caller's object before the put
PutValueKeepsDate(obj, clock) == obj

PutValue(obj, clock) == [ obj EXCEPT !.updatedAt = clock ]

\* store.put(project): the record under the key is replaced as a whole
StorePutMerged(store, doc) ==
  IF doc.id \in DOMAIN store
    THEN [ store EXCEPT ![doc.id] = [ doc EXCEPT !.content = store[doc.id].content ] ]
    ELSE SetItem(store, doc.id, doc)

StorePut(store, doc) == SetItem(store, doc.id, doc)

\* the transaction of a saveProject: [store, cache, tasks, last]
SettlePut(t, rest, store, cache, clock) ==
  LET obj == IF t.ref THEN cache[t.id] ELSE t.doc
      stamped == PutValue(obj, clock)
  IN  [ store |-> StorePut(store, stamped),
        cache |-> IF t.ref THEN SetItem(cache, t.id, stamped) ELSE cache,
        tasks |-> rest,
        last |-> MkResult(t.op, t.id, "ok", stamped, t.overlaps) ]

\* the transaction of a deleteProject
SettleDelete(t, rest, store, cache) ==
  [ store |-> RemoveItem(store, t.id), cache |-> cache, tasks |-> rest,
    last |-> MkResult(t.op, t.id, "ok", NoDoc, FALSE) ]

\* the transaction of a loadProject and what its caller does with the
\* result: loadProject itself, updateProject or updateProjectName
SettleGet(t, rest, store, cache, last) ==
  LET found == t.id \in DOMAIN store
      obj == IF found THEN store[t.id] ELSE NoDoc
      kept == IF t.id \in DOMAIN cache THEN Detach(rest, t.id, cache[t.id])
                                       ELSE rest
      cache1 == IF found THEN SetItem(cache, t.id, obj)
                         ELSE RemoveItem(cache, t.id)
  IN  IF t.op = "load"
        THEN [ store |-> store, cache |-> cache1, tasks |-> kept,
               last |-> MkResult(t.op, t.id, IF found THEN "ok" ELSE "null",
                                 obj, FALSE) ]
      ELSE IF ~found
        THEN [ store |-> store, cache |-> cache1, tasks |-> kept,
               last |-> MkResult(t.op, t.id, "error", NoDoc, FALSE) ]
      ELSE IF t.op = "updateProjectName"
        THEN [ store |-> store,
               cache |-> SetItem(cache, t.id, [ obj EXCEPT !.name = t.upd.name ]),
               tasks |-> Append(kept, MkCall(t.op, "put", t.id, NoDoc, TRUE,
                                             NoUpdates, PutPending(kept, t.id))),
               last |-> last ]
      ELSE [ store |-> store, cache |-> cache1,
             tasks |-> Append(kept, MkCall(t.op, "put", t.id,
                                           ApplyUpdates(obj, t.upd), FALSE,
                                           NoUpdates, PutPending(kept, t.id))),
             last |-> last ]

Settle(t, rest, store, cache, clock, last) ==
  IF t.step = "put" THEN SettlePut(t, rest, store, cache, clock)
  ELSE IF t.step = "delete" THEN SettleDelete(t, rest, store, cache)
  ELSE SettleGet(t, rest, store, cache, last)

IDBInit ==
  /\ idbStore \in { << >>, SetItem(<< >>, 1, MkDoc(1, "Demo", 1, 1, 1)) }
  /\ idbCache \in { << >>, idbStore }
  /\ idbTasks = << >>
  /\ idbLast = NoResult
  /\ idbOps = 0
  /\ nextId = FirstFreshId
  /\ now = 1
  /\ library = NoLibrary
  /\ MediaUnused
  /\ EditorMounted
  /\ lsData = << >>
  /\ lsIndex = << >>
  /\ lsTasks = << >>
  /\ lsOps = 0
  /\ videos = << >>
  /\ videos0 = << >>
  /\ project = NoProject
  /\ file = NoArchive
  /\ exportOpts = NoExport
  /\ importResult = NoImport
  /\ pc = "store"

\* a call reaches its await of getDB()
IDBCall(task, cache1) ==
  /\ idbOps < MaxCalls
  /\ idbTasks' = Append(idbTasks, task)
  /\ idbCache' = cache1
  /\ idbOps' = idbOps + 1
  /\ UNCHANGED << idbStore, idbLast, now, library >>
  /\ UNCHANGED << codecVars, lsVars >>
  /\ UNCHANGED << mediaVars, editorVars >>

\* createProject(name, description)
IDBCreateProject(name) ==
  /\ IDBCall(MkCall("create", "put", nextId, MkDoc(nextId, name, 0, now, now),
                    FALSE, NoUpdates, FALSE), idbCache)
  /\ nextId' = nextId + 1

\* saveProject(project) with the caller's object p
IDBSaveProject(p) ==
  /\ IDBCall(MkCall("save", "put", p.id, p, FALSE, NoUpdates,
                    PutPending(idbTasks, p.id)), idbCache)
  /\ UNCHANGED nextId

\* loadProject(id)
IDBLoadProject(id) ==
  /\ IDBCall(MkCall("load", "get", id, NoDoc, FALSE, NoUpdates, FALSE), idbCache)
  /\ UNCHANGED nextId

\* updateProject(id, updates): getProject answers from the Map when it can
IDBUpdateProject(id, u) ==
  /\ IF id \in DOMAIN idbCache
       THEN IDBCall(MkCall("updateProject", "put", id,
                           ApplyUpdates(idbCache[id], u), FALSE, NoUpdates,
                           PutPending(idbTasks, id)), idbCache)
       ELSE IDBCall(MkCall("updateProject", "get", id, NoDoc, FALSE, u, FALSE),
                    idbCache)
  /\ UNCHANGED nextId

\* updateProjectName(id, name)
IDBUpdateProjectName(id, name) ==
  /\ IF id \in DOMAIN idbCache
       THEN IDBCall(MkCall("updateProjectName", "put", id, NoDoc, TRUE,
                           NoUpdates, PutPending(idbTasks, id)),
                    [ idbCache EXCEPT ![id].name = name ])
       ELSE IDBCall(MkCall("updateProjectName", "get", id, NoDoc, FALSE,
                           MkUpdates(name, -1, 0), FALSE), idbCache)
  /\ UNCHANGED nextId

\* deleteProject(id)
IDBDeleteProject(id) ==
  /\ IDBCall(MkCall("delete", "delete", id, NoDoc, FALSE, NoUpdates, FALSE),
             idbCache)
  /\ UNCHANGED nextId

\* getDB() resolves for the oldest waiting call and its transaction runs
IDBResume ==
  /\ idbTasks # << >>
  /\ LET r == Settle(Head(idbTasks), Tail(idbTasks), idbStore, idbCache, now,
                     idbLast)
     IN  /\ idbStore' = r.store
         /\ idbCache' = r.cache
         /\ idbTasks' = r.tasks
         /\ idbLast' = r.last
  /\ UNCHANGED << idbOps, nextId, now, library >>
  /\ UNCHANGED << codecVars, lsVars >>
  /\ UNCHANGED << mediaVars, editorVars >>

IdbIds == ProjectIds \cup DOMAIN idbStore

\* the objects callers hand to saveProject: any name and content, the
\* stored createdAt or a new one, and the updatedAt they set themselves
\* when they build the object (ScenarioEditor handleSave, handleImport)
IdbSaveInputs ==
  UNION { { MkDoc(i, n, c, cr, now) :
              n \in Names, c \in 0..1,
              cr \in { now } \cup (IF i \in DOMAIN idbStore
                                      THEN { idbStore[i].createdAt } ELSE { }) } :
          i \in IdbIds }

UpdateInputs == { MkUpdates("", 0, 0), MkUpdates("", -1, now) }

IDBNext ==
  \/ \E n \in Names : IDBCreateProject(n)
  \/ \E p \in IdbSaveInputs : IDBSaveProject(p)
  \/ \E i \in IdbIds : IDBLoadProject(i)
  \/ \E i \in IdbIds : \E u \in UpdateInputs : IDBUpdateProject(i, u)
  \/ \E i \in IdbIds : \E n \in Names : IDBUpdateProjectName(i, n)
  \/ \E i \in IdbIds : IDBDeleteProject(i)
  \/ IDBResume
  \/ Tick

SpecIDB == IDBInit /\ [][IDBNext]_vars

\* ------------------------------------------------------ codec: the inputs
AssetStates(a) ==
  IF a % 2 = 1
    THEN { VideoRecord(NoData, "video/mp4"), VideoRecord(<< >>, "video/mp4"),
           VideoRecord(<< 0, 1 >>, "video/mp4") }
    ELSE { VideoRecord(<< 255 >>, "video/webm"),
           VideoRecord(<< 77, 97, 110 >>, "video/webm") }

Stores ==
  UNION { { f \in [ D -> UNION { AssetStates(a) : a \in AssetIds } ] :
              \A a \in D : f[a] \in AssetStates(a) } : D \in SUBSET AssetIds }

Projects ==
  UNION { { MkProject(1, "Demo", "", ns, es, 1, 1) : es \in EdgeSeqs(ns) } :
          ns \in NodeSeqs }
  \cup { MkProject(1, "", "", << >>, << >>, 1, 1) }

\* asset ids the resource-video nodes refer to
ReferencedAssets(nodes) ==
  { nodes[i].videoUrl.id : i \in { j \in 1..Len(nodes) : IsResourceVideoNode(nodes[j]) } }

\* archives written by hand or by another installation
CraftNodeSeqs ==
  { << >>,
    << MkNode(1, "video", ResourceUrl(1), "", 0) >>,
    << MkNode(1, "video", ResourceUrl(1), "", 0),
       MkNode(2, "video", ResourceUrl(1), "", 2) >>,
    << MkNode(1, "video", ResourceUrl(1), "", 0),
       MkNode(2, "video", ResourceUrl(2), "", 2) >> }

CraftResources ==
  { MkResource(1, B64Encode(<< 0, 1 >>), 1, "video/mp4", "a.mp4"),
    MkResource(1, << >>, 1, "video/mp4", "a.mp4"),
    MkResource(1, << 5 >>, 1, "video/mp4", "a.mp4"),
    MkResource(2, B64Encode(<< 255 >>), 2, "video/webm", "b.webm") }

CraftedArchives ==
  { MkArchive("txt", "object", VERSION, "X", "", FALSE, NoProject, TRUE, TRUE,
              << >>, << >>, << >>),
    MkArchive("json", "garbage", "", "", "", FALSE, NoProject, FALSE, FALSE,
              << >>, << >>, << >>),
    MkArchive("json", "scalar", "", "", "", FALSE, NoProject, FALSE, FALSE,
              << >>, << >>, << >>),
    MkArchive("pov", "object", VERSION, "X", "", FALSE, NoProject, FALSE, FALSE,
              << >>, << >>, << >>),
    MkArchive("pov", "object", VERSION, "X", "", FALSE, NoProject, TRUE, FALSE,
              << >>, << >>, << >>) }
  \cup { MkArchive("pov", "object", v, "X", "", FALSE, NoProject, TRUE, TRUE,
                   ns, << >>, rs) :
           v \in { "2.0.0", "3.0.0" }, ns \in CraftNodeSeqs,
           rs \in SeqsUpTo(CraftResources, 2) }
  \cup { MkArchive("pov", "object", "2.0.0", "", "", TRUE,
                   MkProject(i, "X", "", ns, << >>, i, i),
                   FALSE, FALSE, << >>, << >>, rs) :
           i \in 0..1, ns \in CraftNodeSeqs,
           rs \in SeqsUpTo(CraftResources, 2) }

\* the Project Store when the library is opened: empty, or holding the
\* project saved under id 1 in an earlier session
StoredProjects ==
  { << >>, SetItem(<< >>, 1, MkProject(1, "Demo", "", << >>, << >>, 1, 1)) }

\* ------------------------------------------------------ codec: the actions
CodecInit ==
  /\ videos \in Stores
  /\ videos0 = videos
  /\ \/ project \in Projects /\ file = NoArchive
     \/ project = NoProject /\ file \in CraftedArchives
  /\ exportOpts = NoExport
  /\ importResult = NoImport
  /\ nextId = FirstFreshId
  /\ now = MaxClock
  /\ pc = "ready"
  /\ lsData = << >>
  /\ lsIndex = << >>
  /\ lsTasks = << >>
  /\ lsOps = 0
  /\ idbStore \in StoredProjects
  /\ idbCache = << >>
  /\ idbTasks = << >>
  /\ idbLast = NoResult
  /\ idbOps = 0
  /\ library = NoLibrary
  /\ MediaUnused
  /\ EditorMounted

\* exportProject(project, includeVideos); the reads of the assets in
\* failing are rejected by the store
DoExport(includeVideos, failing) ==
  /\ pc = "ready"
  /\ project # NoProject
  /\ LET e == ExportProject(project, includeVideos, videos, failing)
     IN  /\ file' = e.archive
         /\ exportOpts' = [ includeVideos |-> includeVideos,
                            failing |-> failing, raised |-> e.raised ]
  /\ pc' = "exported"
  /\ UNCHANGED << videos, videos0, project, importResult, nextId, now >>
  /\ UNCHANGED << lsVars, idbVars, library >>
  /\ UNCHANGED << mediaVars, editorVars >>

\* importProject(file) that would also put the project it returns
DoImportAndSave(storeFailing) ==
  /\ pc \in { "ready", "exported" }
  /\ file # NoArchive
  /\ LET r == ImportProject(file, videos, nextId, now, storeFailing)
     IN  /\ importResult' = [ ok |-> r.ok, error |-> r.error,
                              project |-> r.project, written |-> r.written ]
         /\ videos' = r.vids
         /\ nextId' = r.nextId
         /\ idbStore' = IF r.ok THEN StorePut(idbStore, r.project) ELSE idbStore
  /\ pc' = "imported"
  /\ UNCHANGED << videos0, project, file, exportOpts, now >>
  /\ UNCHANGED << lsVars, idbCache, idbTasks, idbLast, idbOps, library >>
  /\ UNCHANGED << mediaVars, editorVars >>

\* importProject(file), called by handleImport; the puts of the resources
\* in storeFailing fail
DoImport(storeFailing) ==
  /\ pc \in { "ready", "exported" }
  /\ file # NoArchive
  /\ LET r == ImportProject(file, videos, nextId, now, storeFailing)
     IN  /\ importResult' = [ ok |-> r.ok, error |-> r.error,
                              project |-> r.project, written |-> r.written ]
         /\ videos' = r.vids
         /\ nextId' = r.nextId
  /\ pc' = "imported"
  /\ UNCHANGED << videos0, project, file, exportOpts, now >>
  /\ UNCHANGED << lsVars, idbVars, library >>
  /\ UNCHANGED << mediaVars, editorVars >>

\* the name handleImport gives the project it saves
ImportedName(name) ==
  (IF name # "" THEN name ELSE "Imported Project") \o " (imported)"

ImportErrorMessage == "Failed to import project. Please make sure the file is valid."

\* a handler that would save and open whatever importProject left behind
HandleImportedIgnoringFailure ==
  /\ pc = "imported"
  /\ LET newProject == [ importResult.project EXCEPT
                           !.id = nextId,
                           !.createdAt = now,
                           !.updatedAt = now,
                           !.name = ImportedName(@) ]
     IN  /\ idbStore' = StorePut(idbStore, PutValue(newProject, now))
         /\ library' = [ library EXCEPT !.selected = nextId ]
         /\ nextId' = nextId + 1
  /\ pc' = "handled"
  /\ UNCHANGED << videos, videos0, project, file, exportOpts, importResult, now >>
  /\ UNCHANGED << lsVars, idbCache, idbTasks, idbLast, idbOps >>
  /\ UNCHANGED << mediaVars, editorVars >>

\* handleImport after its await of importProject: the project is given a
\* new id, new timestamps and its name, saved and opened; when
\* importProject threw, the catch block sets the error and nothing else
HandleImported ==
  /\ pc = "imported"
  /\ IF importResult.ok
       THEN LET newProject == [ importResult.project EXCEPT
                                  !.id = nextId,
                                  !.createdAt = now,
                                  !.updatedAt = now,
                                  !.name = ImportedName(@) ]
            IN  /\ idbStore' = StorePut(idbStore, PutValue(newProject, now))
                /\ library' = [ library EXCEPT !.selected = nextId ]
                /\ nextId' = nextId + 1
       ELSE /\ library' = [ library EXCEPT !.error = ImportErrorMessage ]
            /\ UNCHANGED << idbStore, nextId >>
  /\ pc' = "handled"
  /\ UNCHANGED << videos, videos0, project, file, exportOpts, importResult, now >>
  /\ UNCHANGED << lsVars, idbCache, idbTasks, idbLast, idbOps >>
  /\ UNCHANGED << mediaVars, editorVars >>

CodecNext ==
  \/ \E iv \in BOOLEAN : \E f \in SUBSET ReferencedAssets(project.nodes) :
       DoExport(iv, f)
  \/ \E sf \in SUBSET { file.resources[k].id : k \in 1..Len(file.resources) } :
       DoImport(sf)
  \/ HandleImported

SpecCodec == CodecInit /\ [][CodecNext]_vars

\* ------------------------------------- Asset Store: LocalStorageAdapter
\* the repository holds two adapters over the same media_library key and
\* the same MediaLibrary database: "storage" waits for its transaction to
\* complete before it writes the metadata, "service" does not wait
Adapters == { "storage", "service" }

\* everything but the asset store and the id generator
projectVars == << codecVars, lsVars, idbVars, library, now >>

\* a call waiting for its indexedDB.open request; ids is what listMedia
\* read from the metadata when it was called
MkMediaTask(op, id, ids, call) == [ op |-> op, id |-> id, ids |-> ids, call |-> call ]

\* how a call settled: listed are the ids of the MediaFiles it resolved
\* with, missing those among them that came with an empty url
MkMediaResult(op, id, call, status, listed, missing) == [ op |-> op, id |-> id, call |-> call, status |-> status, listed |-> listed, missing |-> missing ]

MediaInit ==
  /\ adapter \in Adapters
  /\ storedMetadata = {}
  /\ files = {}
  /\ mediaTasks = << >>
  /\ mediaLast = NoMediaResult
  /\ mediaOps = 0
  /\ nextId = FirstFreshId
  /\ now = 1
  /\ videos = << >>
  /\ videos0 = << >>
  /\ project = NoProject
  /\ file = NoArchive
  /\ exportOpts = NoExport
  /\ importResult = NoImport
  /\ pc = "media"
  /\ lsData = << >>
  /\ lsIndex = << >>
  /\ lsTasks = << >>
  /\ lsOps = 0
  /\ idbStore = << >>
  /\ idbCache = << >>
  /\ idbTasks = << >>
  /\ idbLast = NoResult
  /\ idbOps = 0
  /\ library = NoLibrary
  /\ EditorMounted

\* the id saveMedia files the asset under: "storage" takes the id of
\* partialMetadata when there is one (0 for none)
SaveId(supplied) == IF adapter = "storage" /\ supplied # 0 THEN supplied ELSE nextId

\* saveMedia up to the point where it waits or returns: "storage" opens
\* the database and waits; "service" opens it, writes the metadata and
\* resolves at once
SaveMedia(supplied) ==
  /\ mediaOps < MaxMediaCalls
  /\ mediaOps' = mediaOps + 1
  /\ nextId' = IF SaveId(supplied) = nextId THEN nextId + 1 ELSE nextId
  /\ mediaTasks' = Append(mediaTasks, MkMediaTask("saveMedia", SaveId(supplied), {}, mediaOps + 1))
  /\ IF adapter = "service"
       THEN /\ storedMetadata' = storedMetadata \cup { SaveId(supplied) }
            /\ mediaLast' = MkMediaResult("saveMedia", SaveId(supplied), mediaOps + 1, "resolved", { SaveId(supplied) }, {})
       ELSE UNCHANGED << storedMetadata, mediaLast >>
  /\ UNCHANGED << adapter, files >>
  /\ UNCHANGED << projectVars, editorVars >>

\* getMedia up to its indexedDB.open: it throws when the id has no metadata
GetMedia(id) ==
  /\ mediaOps < MaxMediaCalls
  /\ mediaOps' = mediaOps + 1
  /\ IF id \in storedMetadata
       THEN /\ mediaTasks' = Append(mediaTasks, MkMediaTask("getMedia", id, {}, mediaOps + 1))
            /\ UNCHANGED mediaLast
       ELSE /\ mediaLast' = MkMediaResult("getMedia", id, mediaOps + 1, "rejected", {}, {})
            /\ UNCHANGED mediaTasks
  /\ UNCHANGED << adapter, storedMetadata, files, nextId >>
  /\ UNCHANGED << projectVars, editorVars >>

\* listMedia reads the metadata and goes on to getMedia of every entry
ListMedia ==
  /\ mediaOps < MaxMediaCalls
  /\ mediaOps' = mediaOps + 1
  /\ mediaTasks' = Append(mediaTasks, MkMediaTask("listMedia", 0, storedMetadata, mediaOps + 1))
  /\ UNCHANGED << adapter, storedMetadata, files, mediaLast, nextId >>
  /\ UNCHANGED << projectVars, editorVars >>

\* deleteMedia removes the metadata entry, then opens the database
DeleteMedia(id) ==
  /\ mediaOps < MaxMediaCalls
  /\ mediaOps' = mediaOps + 1
  /\ storedMetadata' = storedMetadata \ { id }
  /\ mediaTasks' = Append(mediaTasks, MkMediaTask("deleteMedia", id, {}, mediaOps + 1))
  /\ UNCHANGED << adapter, files, mediaLast, nextId >>
  /\ UNCHANGED << projectVars, editorVars >>

\* what getMedia settles with once the database answered: "storage"
\* resolves with an empty url when there are no bytes, "service" rejects
GetMediaResult(task) ==
  IF adapter = "storage"
    THEN MkMediaResult("getMedia", task.id, task.call, "resolved", { task.id }, { task.id } \ files)
    ELSE IF task.id \in files
      THEN MkMediaResult("getMedia", task.id, task.call, "resolved", { task.id }, {})
      ELSE MkMediaResult("getMedia", task.id, task.call, "rejected", {}, {})

\* what listMedia settles with: "storage" skips the entries whose getMedia
\* throws, "service" is a Promise.all over the getMedia calls
ListMediaResult(task) ==
  IF adapter = "storage"
    THEN MkMediaResult("listMedia", 0, task.call, "resolved", task.ids \cap storedMetadata, (task.ids \cap storedMetadata) \ files)
    ELSE IF task.ids \subseteq files
      THEN MkMediaResult("listMedia", 0, task.call, "resolved", task.ids, {})
      ELSE MkMediaResult("listMedia", 0, task.call, "rejected", {}, {})

\* where the put of the "service" saveMedia ends up.  It is issued after
\* an await inside the transaction: it lands before the next request is
\* answered, it lands after the requests already waiting, or the
\* transaction is over by then and nothing is stored
PutOutcomes == { "landed", "later", "lost" }

\* the database answers the oldest open request
MediaResume ==
  /\ mediaTasks # << >>
  /\ LET task == Head(mediaTasks) IN
       CASE task.op = "saveMedia" /\ adapter = "storage" ->
              /\ mediaTasks' = Tail(mediaTasks)
              /\ files' = files \cup { task.id }
              /\ storedMetadata' = storedMetadata \cup { task.id }
              /\ mediaLast' = MkMediaResult("saveMedia", task.id, task.call, "resolved", { task.id }, {})
         [] task.op = "saveMedia" /\ adapter = "service" ->
              /\ \E outcome \in PutOutcomes :
                   /\ files' = IF outcome = "landed" THEN files \cup { task.id } ELSE files
                   /\ mediaTasks' = IF outcome = "later"
                                      THEN Append(Tail(mediaTasks), MkMediaTask("put", task.id, {}, task.call))
                                      ELSE Tail(mediaTasks)
              /\ UNCHANGED << storedMetadata, mediaLast >>
         [] task.op = "put" ->
              /\ \E landed \in BOOLEAN : files' = IF landed THEN files \cup { task.id } ELSE files
              /\ mediaTasks' = Tail(mediaTasks)
              /\ UNCHANGED << storedMetadata, mediaLast >>
         [] task.op = "getMedia" ->
              /\ mediaTasks' = Tail(mediaTasks)
              /\ mediaLast' = GetMediaResult(task)
              /\ UNCHANGED << storedMetadata, files >>
         [] task.op = "listMedia" ->
              /\ mediaTasks' = Tail(mediaTasks)
              /\ mediaLast' = ListMediaResult(task)
              /\ UNCHANGED << storedMetadata, files >>
         [] task.op = "deleteMedia" ->
              /\ mediaTasks' = Tail(mediaTasks)
              /\ files' = files \ { task.id }
              /\ mediaLast' = MkMediaResult("deleteMedia", task.id, task.call, "resolved", {}, {})
              /\ UNCHANGED storedMetadata
  /\ UNCHANGED << adapter, mediaOps, nextId >>
  /\ UNCHANGED << projectVars, editorVars >>

\* the ids callers pass: one they chose themselves and those saveMedia made
SuppliedIds == { 0, 1 }

MediaIds == { 1 } \cup (FirstFreshId .. (nextId - 1))

MediaNext ==
  \/ \E s \in SuppliedIds : SaveMedia(s)
  \/ \E i \in MediaIds : GetMedia(i)
  \/ ListMedia
  \/ \E i \in MediaIds : DeleteMedia(i)
  \/ MediaResume

SpecMedia == MediaInit /\ [][MediaNext]_vars

\* ------------------------------------------- scenario editor: undo and redo
\* what the graph holds, as JSON.stringify tells it; 0 is the empty graph
GraphContents == 0..2

\* everything but the editor
outsideVars == << codecVars, lsVars, idbVars, library, now, nextId, mediaVars >>

EditorInit ==
  /\ EditorMounted
  /\ MediaUnused
  /\ nextId = FirstFreshId
  /\ now = 1
  /\ videos = << >>
  /\ videos0 = << >>
  /\ project = NoProject
  /\ file = NoArchive
  /\ exportOpts = NoExport
  /\ importResult = NoImport
  /\ pc = "editor"
  /\ lsData = << >>
  /\ lsIndex = << >>
  /\ lsTasks = << >>
  /\ lsOps = 0
  /\ idbStore = << >>
  /\ idbCache = << >>
  /\ idbTasks = << >>
  /\ idbLast = NoResult
  /\ idbOps = 0
  /\ library = NoLibrary

\* JSON.stringify(prev[currentHistoryIndex]) === JSON.stringify(newState);
\* an index without an entry stringifies to undefined and equals nothing
SameAsCurrentEntry(hist, idx, g) ==
  /\ idx >= 0
  /\ idx + 1 <= Len(hist)
  /\ hist[idx + 1].content = g.content

\* prev.slice(0, currentHistoryIndex + 1)
SliceToIndex(hist, idx) ==
  SubSeq(hist, 1, IF idx + 1 <= Len(hist) THEN idx + 1 ELSE Len(hist))

\* the effect on [nodes, edges]: it runs after a render in which one of the
\* arrays is a new one, with the index and the flag of that render
HistoryEffect(g, hist, idx, undoRedo) ==
  IF ~undoRedo /\ g.content # 0
    THEN [ history |-> IF SameAsCurrentEntry(hist, idx, g) THEN hist
                       ELSE Append(SliceToIndex(hist, idx), g),
           index |-> idx + 1,
           isUndoRedo |-> FALSE ]
    ELSE [ history |-> hist, index |-> idx, isUndoRedo |-> FALSE ]

\* setNodes or setEdges with a new array: a project loaded, a node dropped,
\* moved, deleted or edited (handleNodeDataChange maps to a new array even
\* when the data it is given changes nothing)
GraphChange(c) ==
  /\ graphRefs < MaxEdits
  /\ graphRefs' = graphRefs + 1
  /\ graph' = MkGraph(graphRefs + 1, c)
  /\ LET e == HistoryEffect(graph', history, currentHistoryIndex, isUndoRedo)
     IN  /\ history' = e.history
         /\ currentHistoryIndex' = e.index
         /\ isUndoRedo' = e.isUndoRedo
  /\ UNCHANGED outsideVars

\* the arrays of a history entry are set and the index moves by d; the
\* effect runs when the arrays differ from the ones shown
ShowEntry(entry, d) ==
  /\ graph' = entry
  /\ history' = history
  /\ currentHistoryIndex' = currentHistoryIndex + d
  /\ isUndoRedo' = (entry.ref = graph.ref)

\* handleUndo
HandleUndo ==
  /\ currentHistoryIndex > 0
  /\ IF currentHistoryIndex <= Len(history)
       THEN ShowEntry(history[currentHistoryIndex], -1)
       ELSE /\ isUndoRedo' = TRUE
            /\ UNCHANGED << graph, history, currentHistoryIndex >>
  /\ UNCHANGED graphRefs
  /\ UNCHANGED outsideVars

\* handleRedo
HandleRedo ==
  /\ currentHistoryIndex < Len(history) - 1
  /\ ShowEntry(history[currentHistoryIndex + 2], 1)
  /\ UNCHANGED graphRefs
  /\ UNCHANGED outsideVars

EditorNext ==
  \/ \E c \in GraphContents : GraphChange(c)
  \/ HandleUndo
  \/ HandleRedo

SpecEditor == EditorInit /\ [][EditorNext]_vars

\* ============================================================ properties
\* --------------------------------------------------- helpers of the claims
\* the reference resolves in the store to a record with data
Resolves(vids, url) ==
  /\ url.scheme = "resource"
  /\ url.id \in DOMAIN vids
  /\ vids[url.id].data # NoData

\* the asset of node n was read and converted by a full export
AssetWasRead(n, vids, failing) ==
  /\ IsResourceVideoNode(n)
  /\ n.videoUrl.id \notin failing
  /\ n.videoUrl.id \in DOMAIN vids
  /\ vids[n.videoUrl.id].data # NoData
  /\ vids[n.videoUrl.id].data # << >>

\* every video node of p refers to an asset that the store holds
AllVideoNodesBacked(p, vids) ==
  \A i \in 1..Len(p.nodes) :
    p.nodes[i].type = "video" => Resolves(vids, p.nodes[i].videoUrl)

ExportedThenImported ==
  pc = "imported" /\ project # NoProject

RecordedResourceIds(f) == { f.resources[k].id : k \in 1..Len(f.resources) }

\* C1 - round trip: importing the full export of a project whose video
\* nodes are all backed by stored assets succeeds and returns a project with
\* as many nodes, of the same types, the same edges, and each video node
\* holds a reference that resolves in the store to the bytes of its asset.
C1_RoundTrip ==
  (ExportedThenImported /\ exportOpts.includeVideos
     /\ AllVideoNodesBacked(project, videos0))
  => LET q == importResult.project
     IN  /\ importResult.ok
         /\ Len(q.nodes) = Len(project.nodes)
         /\ \A i \in 1..Len(project.nodes) :
              /\ q.nodes[i].type = project.nodes[i].type
              /\ q.nodes[i].choices = project.nodes[i].choices
              /\ project.nodes[i].type = "video" =>
                    /\ Resolves(videos, q.nodes[i].videoUrl)
                    /\ videos[q.nodes[i].videoUrl.id].data
                         = videos0[project.nodes[i].videoUrl.id].data
         /\ q.edges = project.edges

\* a project of two video nodes and two edges came back with node 1 bound
\* to a newly stored copy of the bytes 0x00 0x01
C1_Witness ==
  /\ ExportedThenImported /\ exportOpts.includeVideos
  /\ AllVideoNodesBacked(project, videos0)
  /\ Len(project.nodes) = 2 /\ Len(project.edges) = 2
  /\ project.nodes[1].videoUrl = ResourceUrl(1)
  /\ videos0[1].data = << 0, 1 >>
  /\ importResult.project.nodes[1].videoUrl.id >= FirstFreshId
  /\ videos[importResult.project.nodes[1].videoUrl.id].data = << 0, 1 >>
  /\ importResult.project.nodes[2].choices = 2

\* C2 - project id freshness: the project returned by import never carries
\* the project id recorded in the archive.
C2_ProjectIdFresh ==
  (pc = "imported" /\ importResult.ok /\ file.hasProject /\ file.project.id # 0)
  => importResult.project.id # file.project.id

\* C3 - asset id freshness: every key import puts into the videos store
\* differs from every resource id recorded in the archive, and the assets
\* stored before the import under recorded ids are left as they were.
C3_AssetIdFresh ==
  pc = "imported" =>
    /\ importResult.written \cap RecordedResourceIds(file) = {}
    /\ \A id \in DOMAIN videos0 :
         id \in RecordedResourceIds(file) =>
           id \in DOMAIN videos /\ videos[id] = videos0[id]

\* an import wrote an asset while the store held one under a recorded id
C3_Witness ==
  /\ pc = "imported"
  /\ importResult.written # {}
  /\ RecordedResourceIds(file) \cap DOMAIN videos0 # {}

\* C4 - version gate: an archive whose major version differs from the
\* codec's is rejected and the stores are left unchanged.
C4_VersionGate ==
  (pc = "imported" /\ file.ext \in { "pov", "json" } /\ file.kind = "object"
     /\ Major(file.version) # Major(VERSION))
  => /\ ~importResult.ok
     /\ videos = videos0

\* C5 - metadata-only export never embeds bytes: every resource of the
\* archive written with includeVideos = false has empty data.
C5_MetadataOnlyNoBytes ==
  (pc = "exported" /\ ~exportOpts.includeVideos)
  => \A k \in 1..Len(file.resources) : file.resources[k].data = << >>

\* a metadata-only export listed a resource for an asset that has bytes
C5_Witness ==
  /\ pc = "exported" /\ ~exportOpts.includeVideos
  /\ \E k \in 1..Len(file.resources) :
       /\ file.resources[k].id \in DOMAIN videos
       /\ Len(videos[file.resources[k].id].data) > 0

\* C6 - partial-failure isolation: a full export does not raise, and the
\* archive holds exactly one resource for each video node whose asset was
\* read, none for those whose read failed.
C6_PartialFailureIsolation ==
  (pc = "exported" /\ exportOpts.includeVideos)
  => LET read == { i \in 1..Len(project.nodes) :
                     AssetWasRead(project.nodes[i], videos, exportOpts.failing) }
     IN  /\ ~exportOpts.raised
         /\ Len(file.resources) = Cardinality(read)
         /\ \A i \in 1..Len(project.nodes) :
              Cardinality({ k \in 1..Len(file.resources) :
                              file.resources[k].nodeId = project.nodes[i].id })
                = IF i \in read THEN 1 ELSE 0

\* two video nodes with stored assets, the read of one was rejected, and
\* the archive holds the one resource of the other
C6_Witness ==
  /\ pc = "exported" /\ exportOpts.includeVideos
  /\ Len(project.nodes) = 2
  /\ \A i \in 1..2 : Resolves(videos, project.nodes[i].videoUrl)
  /\ Cardinality(exportOpts.failing) = 1
  /\ Len(file.resources) = 1

\* C7 (as stated) - self-referential archive: every resource:// reference
\* of a node names a resource of the archive, and the node of every
\* resource carries the reference to it.
C7_SelfReferentialAll ==
  (pc = "exported" /\ exportOpts.includeVideos)
  => /\ \A i \in 1..Len(file.nodes) :
          file.nodes[i].videoUrl.scheme = "resource" =>
            file.nodes[i].videoUrl.id \in RecordedResourceIds(file)
     /\ \A k \in 1..Len(file.resources) :
          \E i \in 1..Len(file.nodes) :
            /\ file.nodes[i].id = file.resources[k].nodeId
            /\ file.nodes[i].videoUrl = ResourceUrl(file.resources[k].id)

\* C7 (amended) - the node of every collected resource carries the
\* reference to it, and every node whose asset was read refers to a
\* resource of the archive collected for that node.
C7_SelfReferentialCollected ==
  (pc = "exported" /\ exportOpts.includeVideos)
  => /\ \A i \in 1..Len(file.nodes) :
          AssetWasRead(project.nodes[i], videos, exportOpts.failing) =>
            \E k \in 1..Len(file.resources) :
              /\ file.resources[k].nodeId = file.nodes[i].id
              /\ file.nodes[i].videoUrl = ResourceUrl(file.resources[k].id)
     /\ \A k \in 1..Len(file.resources) :
          \E i \in 1..Len(file.nodes) :
            /\ file.nodes[i].id = file.resources[k].nodeId
            /\ file.nodes[i].videoUrl = ResourceUrl(file.resources[k].id)

\* a full export collected the asset of one node and failed to read the
\* asset of the other, whose reference stays as it was
C7_Witness ==
  /\ pc = "exported" /\ exportOpts.includeVideos
  /\ Len(file.resources) = 1
  /\ \E i \in 1..Len(file.nodes) :
       /\ file.nodes[i].videoUrl.scheme = "resource"
       /\ file.nodes[i].videoUrl.id \notin RecordedResourceIds(file)

\* updatedAt of the listed documents, in listing order
ListedUpdatedAt == [ k \in 1..Len(ListProjectsLS(lsData, lsIndex)) |->
                      lsData[ListProjectsLS(lsData, lsIndex)[k]].updatedAt ]

\* C8 - listing order: once the started writes have completed,
\* listProjects() returns the documents by updatedAt descending.
C8_ListingOrder ==
  lsTasks = << >> =>
    \A j, k \in 1..Len(ListedUpdatedAt) :
      j < k => ListedUpdatedAt[j] >= ListedUpdatedAt[k]

\* C9 - list completeness: once the started writes have completed,
\* listProjects() has exactly one entry for each stored document and none
\* for any other id.
C9_ListComplete ==
  lsTasks = << >> =>
    LET l == ListProjectsLS(lsData, lsIndex)
    IN  /\ Range(l) = DOMAIN lsData
        /\ \A j, k \in 1..Len(l) : j # k => l[j] # l[k]

\* C10 - write atomicity: in every state a reader can run in, between the
\* steps of a write included, the documents loadProject returns are exactly
\* the documents listProjects returns.
C10_WriteAtomic ==
  Range(ListProjectsLS(lsData, lsIndex))
    = { id \in ProjectIds \cup DOMAIN lsData : LoadableLS(lsData, id) }

\* the step in which the transaction of the oldest waiting saveProject runs
PutSettles ==
  /\ idbTasks # << >>
  /\ Head(idbTasks).step = "put"
  /\ idbTasks' # idbTasks
  /\ idbOps' = idbOps

\* C11 - last writer wins: when a save that was started while another save
\* of the same id was still waiting has completed, the stored document
\* equals, field for field, the document passed to that save.
C11_LastWriterWins ==
  (idbLast.status = "ok" /\ idbLast.overlaps)
  => /\ idbLast.id \in DOMAIN idbStore
     /\ idbStore[idbLast.id] = idbLast.doc

\* two saves of one id overlapped, both have completed and the document
\* of the later one is stored
C11_Witness ==
  /\ idbLast.op = "save" /\ idbLast.status = "ok" /\ idbLast.overlaps
  /\ idbTasks = << >>
  /\ idbStore[idbLast.id] = idbLast.doc
  /\ idbLast.doc.content = 0 /\ idbLast.doc.name = "Renamed"

\* C12 - save refreshes updatedAt: the put of a saveProject stores the time
\* of the save as updatedAt, whatever updatedAt the caller's object carried,
\* and never an earlier time than the one stored before.
C12_SaveRefreshesUpdatedAt ==
  [][ PutSettles =>
        LET i == Head(idbTasks).id
        IN  /\ i \in DOMAIN idbStore'
            /\ idbStore'[i].updatedAt = now
            /\ i \in DOMAIN idbStore =>
                 idbStore'[i].updatedAt >= idbStore[i].updatedAt ]_vars

\* a save of the project stored at time 1 has completed at the last
\* instant of the clock and the stored updatedAt is that instant
C12_Witness ==
  /\ idbLast.op = "save" /\ idbLast.status = "ok"
  /\ idbLast.doc.createdAt = 1
  /\ now = MaxClock
  /\ idbStore[idbLast.id].updatedAt = MaxClock

\* C13 - createdAt immutable: no step changes the createdAt of a document
\* that stays stored, whatever createdAt the object of a save, rename or
\* updateProject carries.
C13_CreatedAtImmutable ==
  [][ \A i \in DOMAIN idbStore \cap DOMAIN idbStore' :
        idbStore'[i].createdAt = idbStore[i].createdAt ]_vars

\* C14 - create: the put of createProject(name, description) stores, under
\* an id no stored document has, a document with that name, empty nodes and
\* edges, and createdAt equal to updatedAt.
C14_Create ==
  [][ (PutSettles /\ Head(idbTasks).op = "create") =>
        LET t == Head(idbTasks)
        IN  /\ t.id \notin DOMAIN idbStore
            /\ t.id \in DOMAIN idbStore'
            /\ idbStore'[t.id].name = t.doc.name
            /\ idbStore'[t.id].content = 0
            /\ idbStore'[t.id].createdAt = idbStore'[t.id].updatedAt ]_vars

\* C15 - load of a missing id: loadProject(id) never settles by handing a
\* value to its caller when no document is stored under id.
C15_LoadMissingFails ==
  ~(idbLast.op = "load" /\ idbLast.status = "null")

\* the step in which a deleteProject of the localStorage variant, whose id
\* is neither stored nor listed, writes the index
DeleteOfMissingResumes ==
  /\ lsTasks # << >>
  /\ Head(lsTasks).op = "delete"
  /\ lsTasks' = Tail(lsTasks)
  /\ Head(lsTasks).id \notin DOMAIN lsData
  /\ Head(lsTasks).id \notin Range(lsIndex)

\* C16 - delete idempotence: a deleteProject(id) of an id that is not
\* stored leaves every stored document as it is, listed if it was listed.
C16_DeleteIdempotent ==
  [][ DeleteOfMissingResumes =>
        /\ lsData' = lsData
        /\ \A j \in DOMAIN lsData :
             j \in Range(lsIndex) => j \in Range(lsIndex') ]_vars

\* C17 - rename is load+mutate+save: the put of an updateProjectName(id,
\* name) on a stored project, made while no other save of id was waiting,
\* stores the name set by the rename and the content and createdAt of the
\* document stored for id until then (the most recently saved one).
C17_RenameKeepsFields ==
  [][ (PutSettles /\ Head(idbTasks).op = "updateProjectName"
         /\ ~Head(idbTasks).overlaps
         /\ Head(idbTasks).id \in DOMAIN idbStore) =>
        LET i == Head(idbTasks).id
        IN  /\ idbStore'[i].name = idbCache'[i].name
            /\ idbStore'[i].content = idbStore[i].content
            /\ idbStore'[i].createdAt = idbStore[i].createdAt ]_vars

\* C18 - import is a pure transform with respect to the Project Store: the
\* step in which importProject runs, whether it returns or throws, leaves
\* every document of the Project Store as it was.
C18_ImportLeavesStore ==
  [][ (pc # "imported" /\ pc' = "imported") => idbStore' = idbStore ]_vars

\* importProject returned a project and wrote its video while the Project
\* Store holds the project saved earlier and not the returned one
C18_Witness ==
  /\ pc = "imported" /\ importResult.ok
  /\ importResult.written # {}
  /\ DOMAIN idbStore = { 1 }
  /\ importResult.project.id \notin DOMAIN idbStore

InvalidFormatErrors ==
  { "Invalid file type", "Invalid JSON format", "Invalid project file format",
    "Invalid project file: missing or invalid project data" }

\* the file is not JSON, or its JSON has neither a project nor a scenario
\* with nodes
LacksRequiredStructure(f) ==
  \/ f.kind \in { "garbage", "scalar" }
  \/ f.kind = "object" /\ ~f.hasProject /\ ~(f.hasScenario /\ f.hasNodes)

\* C20 - InvalidFormat: importProject of a file that is not parseable JSON,
\* or whose required structure is absent, fails with an invalid-format
\* error and returns no project.
C20_InvalidFormat ==
  (pc \in { "imported", "handled" } /\ LacksRequiredStructure(file))
  => /\ ~importResult.ok
     /\ importResult.error \in InvalidFormatErrors
     /\ importResult.project = NoProject

\* a .pov file whose scenario has no nodes was rejected for its structure
C20_Witness ==
  /\ pc = "imported"
  /\ file.ext = "pov" /\ file.kind = "object"
  /\ file.hasScenario /\ ~file.hasNodes /\ ~file.hasProject
  /\ ~importResult.ok
  /\ importResult.error = "Invalid project file: missing or invalid project data"

\* the archive that records, in the {project, resources} envelope, the
\* nodes, edges, name, description and resources of the scenario archive f
ProjectEnvelopeOf(f, i, c) ==
  MkArchive(f.ext, "object", "", "", "", TRUE,
            MkProject(i, f.name, f.description, f.nodes, f.edges, c, c),
            FALSE, FALSE, << >>, << >>, f.resources)

\* first asset key importProject mints for archive f
RestoreBase(f, nid) == IF MintsProjectId(f) THEN nid + 1 ELSE nid

\* what an import yields apart from the identifiers it mints: whether it
\* succeeded, the name, description and edges, the nodes with each restored
\* reference named by the position of its key among the minted keys, and
\* the records stored under those keys
ImportOutcome(r, base) ==
  [ ok |-> r.ok,
    name |-> r.project.name,
    description |-> r.project.description,
    edges |-> r.project.edges,
    nodes |-> [ i \in 1..Len(r.project.nodes) |->
                  IF r.project.nodes[i].videoUrl.id \in r.written
                    THEN [ r.project.nodes[i] EXCEPT
                             !.videoUrl = [ scheme |-> "restored", id |-> @.id - base ] ]
                    ELSE r.project.nodes[i] ],
    restored |-> { [ key |-> id - base, record |-> r.vids[id] ] : id \in r.written } ]

IsScenarioEnvelope(f) ==
  /\ f.ext \in { "pov", "json" } /\ f.kind = "object"
  /\ ~f.hasProject /\ f.hasScenario /\ f.hasNodes

\* C21 - dual envelope shapes are equivalent: whenever a scenario-envelope
\* archive was imported, importing the project-envelope archive of the same
\* nodes, edges, name, description and resources, with the same puts
\* failing, succeeds as well and yields the same name, description, edges,
\* nodes and restored assets.
C21_DualEnvelope ==
  (pc = "imported" /\ IsScenarioEnvelope(file))
  => \A sf \in SUBSET RecordedResourceIds(file) : \A i \in 0..1 :
       LET a == ImportProject(file, videos0, FirstFreshId, now, sf)
           twin == ProjectEnvelopeOf(file, i, 1)
           b == ImportProject(twin, videos0, FirstFreshId, now, sf)
       IN  (a.project = importResult.project /\ a.written = importResult.written)
           => /\ importResult.ok /\ b.ok
              /\ ImportOutcome(a, RestoreBase(file, FirstFreshId))
                   = ImportOutcome(b, RestoreBase(twin, FirstFreshId))

\* an exported archive with edges and two video nodes was imported, one
\* asset was restored and the other was not; the project envelope of the
\* same content restores the same one
C21_Witness ==
  /\ pc = "imported" /\ IsScenarioEnvelope(file) /\ importResult.ok
  /\ Len(file.edges) = 2
  /\ Cardinality(importResult.written) = 1
  /\ Len(file.resources) = 2
  /\ \E sf \in SUBSET RecordedResourceIds(file) :
       LET b == ImportProject(ProjectEnvelopeOf(file, 1, 1), videos0,
                              FirstFreshId, now, sf)
       IN  /\ b.ok
           /\ Cardinality(b.written) = 1
           /\ ImportOutcome(b, FirstFreshId).edges = importResult.project.edges

\* the nodes recorded in archive f, in either envelope
ArchiveNodes(f) == IF f.hasProject THEN f.project.nodes ELSE f.nodes

\* the puts in sf failing account for what the import returned
Reproduces(sf) ==
  LET a == ImportProject(file, videos0, FirstFreshId, now, sf)
  IN  a.project = importResult.project /\ a.written = importResult.written

\* C22 - resource restoration on import: after a successful import, for
\* every resource of the archive with non-empty data whose decoding and put
\* did not fail, the videos store holds, under a key the import wrote, the
\* decoded bytes with the resource's mimeType, and every node that referred
\* to the resource refers to such a key.
C22_ResourceRestoration ==
  (pc = "imported" /\ importResult.ok)
  => \A sf \in SUBSET RecordedResourceIds(file) :
       Reproduces(sf) =>
         \A k \in 1..Len(file.resources) :
           LET res == file.resources[k]
               rec == VideoRecord(Atob(res.data), res.mimeType)
           IN  (res.data # << >> /\ AtobOk(res.data) /\ res.id \notin sf)
               => /\ \E id \in importResult.written : videos[id] = rec
                  /\ \A i \in 1..Len(ArchiveNodes(file)) :
                       ArchiveNodes(file)[i].videoUrl = ResourceUrl(res.id)
                       => /\ importResult.project.nodes[i].videoUrl.id
                               \in importResult.written
                          /\ videos[importResult.project.nodes[i].videoUrl.id] = rec

\* node i of the archive refers to a resource that the archive records
\* without data
RefersToMetadataOnly(i) ==
  LET n == ArchiveNodes(file)[i]
      k == LastIndexOfId(file.resources, n.videoUrl.id)
  IN  /\ n.type = "video" /\ n.videoUrl.scheme = "resource"
      /\ k # 0
      /\ file.resources[k].data = << >>

\* C23 (as stated) - metadata-only resources are not restored: after a
\* successful import the reference of a node to a resource recorded
\* without data is as recorded and resolves to no asset of the videos store.
C23_MetadataOnlyUnresolved ==
  (pc = "imported" /\ importResult.ok)
  => \A i \in 1..Len(ArchiveNodes(file)) :
       RefersToMetadataOnly(i)
       => /\ importResult.project.nodes[i].videoUrl = ArchiveNodes(file)[i].videoUrl
          /\ ~Resolves(videos, importResult.project.nodes[i].videoUrl)

\* C23 (amended) - after a successful import the reference of a node to a
\* resource recorded without data is as recorded, and it resolves in the
\* videos store exactly if it did before the import; an archive whose
\* resources all lack data leaves the videos store as it was.
C23_MetadataOnlyLeftAsIs ==
  (pc = "imported" /\ importResult.ok)
  => /\ \A i \in 1..Len(ArchiveNodes(file)) :
          RefersToMetadataOnly(i)
          => /\ importResult.project.nodes[i].videoUrl
                  = ArchiveNodes(file)[i].videoUrl
             /\ Resolves(videos, ArchiveNodes(file)[i].videoUrl)
                  <=> Resolves(videos0, ArchiveNodes(file)[i].videoUrl)
     /\ (\A k \in 1..Len(file.resources) : file.resources[k].data = << >>)
          => (importResult.written = {} /\ videos = videos0)

\* a metadata-only export was imported into the store it was exported
\* from: the reference is unchanged and still resolves to the local asset
C23_Witness ==
  /\ pc = "imported" /\ importResult.ok
  /\ project # NoProject /\ ~exportOpts.includeVideos
  /\ Len(file.resources) > 0
  /\ importResult.written = {}
  /\ \E i \in 1..Len(file.nodes) :
       /\ RefersToMetadataOnly(i)
       /\ importResult.project.nodes[i].videoUrl = file.nodes[i].videoUrl
       /\ Resolves(videos, file.nodes[i].videoUrl)

\* ids of the resources whose decoding or put failed when the puts in sf
\* fail: those a video node refers to, with data, that could not be stored
FailedResourceIds(sf) ==
  { ArchiveNodes(file)[i].videoUrl.id :
      i \in { j \in 1..Len(ArchiveNodes(file)) :
                LET n == ArchiveNodes(file)[j]
                    k == LastIndexOfId(file.resources, n.videoUrl.id)
                IN  /\ n.type = "video" /\ n.videoUrl.scheme = "resource"
                    /\ k # 0
                    /\ HasData(file.resources[k])
                    /\ ~StoreVideoSucceeds(file.resources[k], sf) } }

\* the failed resource ids importProject hands to its caller: it returns
\* the project alone, the failures go to console.error
ReportedFailures(r) == { }

\* C24 - partial resource failure on import is reported: when decoding or
\* storing resources fails, the import still returns the project and the
\* caller receives exactly the ids of the resources that failed.
C24_PartialFailureReported ==
  (pc = "imported" /\ file.ext \in { "pov", "json" }
     /\ ~LacksRequiredStructure(file))
  => \A sf \in SUBSET RecordedResourceIds(file) :
       Reproduces(sf)
       => /\ importResult.ok
          /\ ReportedFailures(importResult) = FailedResourceIds(sf)

\* C25 - timestamps are reset on import: the project returned by a
\* successful import has createdAt and updatedAt equal to the time of the
\* import, whatever the archive records.
C25_TimestampsReset ==
  (pc = "imported" /\ importResult.ok)
  => /\ importResult.project.createdAt = now
     /\ importResult.project.updatedAt = now


\* ------------------------------------------------------------ asset store
\* a getMedia call settles in this step
GetMediaSettles == mediaLast' # mediaLast /\ mediaLast'.op = "getMedia"

\* C26: getMedia(id) fails with NotFound whenever no bytes are stored under
\* id, be it never stored, deleted, or a metadata entry without bytes: it
\* never resolves with a result for such an id
C26_GetMediaNotFound == [][(GetMediaSettles /\ mediaLast'.id \notin files) => mediaLast'.status = "rejected"]_vars

\* a getMedia that found the metadata entry of its id gets its answer
GetMediaAnswered == mediaTasks # << >> /\ Head(mediaTasks).op = "getMedia" /\ mediaTasks' = Tail(mediaTasks)

\* a listMedia call settles in this step
ListMediaSettles == mediaLast' # mediaLast /\ mediaLast'.op = "listMedia"

\* C29: once saveMedia has resolved with an id, a getMedia(id) started
\* later finds the metadata entry and the stored bytes of that id, and
\* every id listMedia returns has retrievable bytes
C29_PutDurable == [][(GetMediaAnswered => (mediaLast'.status = "resolved" /\ mediaLast'.missing = {})) /\ (ListMediaSettles => mediaLast'.missing = {})]_vars

\* ------------------------------------------------- project store, deletes
\* updateProjectName or updateProject is called for an id that has no
\* stored document while no call is waiting, so that every deleteProject
\* made before has completed
UpdateOfAbsentCalled ==
  /\ idbTasks = << >>
  /\ idbOps' = idbOps + 1
  /\ Len(idbTasks') = 1
  /\ idbTasks'[1].op \in { "updateProjectName", "updateProject" }
  /\ idbTasks'[1].id \notin DOMAIN idbStore

\* C27: no resurrection after delete: once deleteProject(id) has completed,
\* getProject(id) returns no project and updateProjectName(id, ...) or
\* updateProject(id, ...) goes on to no write, also when the project had
\* been loaded into the service's cache before the delete
C27_NoResurrection == [][UpdateOfAbsentCalled => idbTasks'[1].step # "put"]_vars

\* ------------------------------------------------------ archive resources
\* C28: resource ids are unique within one archive: no two Resource records
\* of the archive exportProject produced share an id, also when two video
\* nodes refer to the same asset
C28_ResourceIdsUnique ==
  pc = "exported" =>
    \A j, k \in 1..Len(file.resources) :
      j # k => file.resources[j].id # file.resources[k].id

\* ----------------------------------------------------------- undo and redo
\* C30: the history index stays in range: after any sequence of graph
\* changes, undos and redos, currentHistoryIndex is -1 with an empty history
\* or 0 <= currentHistoryIndex < history.length
C30_HistoryIndexInRange ==
  \/ currentHistoryIndex = -1 /\ history = << >>
  \/ 0 <= currentHistoryIndex /\ currentHistoryIndex < Len(history)
====
